---- MODULE Spec2Model ----
(***************************************************************************)
(* Model of process_pdfs.py: the batch orchestrator (main), the per-file   *)
(* pipeline (PDFProcessor.process_single_pdf) and the pure extraction      *)
(* helpers (extract_headings, extract_tables, process_page,                *)
(* extract_document_structure).                                            *)
(***************************************************************************)
EXTENDS Integers, Sequences, FiniteSets, TLC

(***************************************************************************)
(* Bounds of the model and constants of the program.                       *)
(***************************************************************************)
MaxFiles == 3        \* files of a batch whose files may all be faulty
MaxPoolFiles == 5    \* files of a batch with at most one faulty file
MaxLines == 3        \* lines of a page text given to extract_headings
HeadingsOver == 2    \* heading lines of a page text beyond the cap of 20
MaxRows == 2         \* rows of a raw table given to extract_tables
MaxTables == 2       \* raw tables of a page given to extract_tables
RowsOver == 2        \* rows of a raw table beyond the cap of 10
MaxCallPages == 3    \* page results given to the aggregation
MaxDocPages == 52    \* pages of a document with one page unlike the others
MaxShortDoc == 2     \* pages of a document of arbitrary sample pages
MaxStressDoc == 3    \* pages of a document of pages that overrun the caps
MaxRunFiles == 2     \* files of a batch with a document of many pages
MaxRunPages == 51    \* pages of the longest document of such a batch
MaxQueueFiles == 5   \* files of a batch of sound files that queue for the pool
PoolLimit == 4       \* min(4, len(pdf_files))
MaxPages == 50       \* min(len(pdf.pages), 50)

Min(a, b) == IF a < b THEN a ELSE b

VARIABLES
    pdf_files,        \* number of discovered files; the files are 1..pdf_files
    fault,            \* fault[f]: the pipeline step at which file f fails, or "none"
    num_pages,        \* num_pages[f]: len(pdf.pages) of file f
    page_steps,       \* page_steps[f]: turns of the page loop taken for file f
    submitted,        \* how many files main has submitted to the executor
    worker,           \* worker[w]: what pool thread w is doing
    result,           \* result[f]: the value process_single_pdf returned for f
    artifact,         \* artifact[f]: state of {output_dir}/{stem}.json
    starts,           \* starts[f]: number of process_single_pdf calls begun for f
    processed_count,  \* PDFProcessor.processed_count
    error_count,      \* PDFProcessor.error_count
    main_pc,          \* position of main
    summary,          \* the tallies main logged
    fn_arg,           \* the argument of a call of one of the extraction helpers
    fn_ret,           \* the value the call returned
    fn_pc,            \* "call" before the call, "done" after it
    doc,              \* pdf.pages of the document of one process_single_pdf call
    doc_fault,        \* the step of the call's try block that raises, or "none"
    doc_pc,           \* position of the call
    max_pages,        \* min(len(pdf.pages), 50)
    page_num,         \* the loop variable of the page loop
    pages_content,    \* the PageContent list built by the page loop
    output_data,      \* the assembled output, <<>> before it is assembled
    doc_result,       \* the value the call returned
    doc_artifact      \* state of the call's output file

batch_vars == <<pdf_files, fault, num_pages, page_steps, submitted, worker, result, artifact, starts,
                processed_count, error_count, main_pc, summary>>

fn_vars == <<fn_arg, fn_ret, fn_pc>>

doc_vars == <<doc, doc_fault, doc_pc, max_pages, page_num, pages_content,
              output_data, doc_result, doc_artifact>>

vars == <<batch_vars, fn_vars, doc_vars>>

\* No helper call and no single-document run is under way.
NoCall == fn_arg = <<>> /\ fn_ret = <<>> /\ fn_pc = "none"

NoBatch ==
    /\ pdf_files = 0
    /\ fault = <<>>
    /\ num_pages = <<>>
    /\ page_steps = <<>>
    /\ submitted = 0
    /\ worker = <<>>
    /\ result = <<>>
    /\ artifact = <<>>
    /\ starts = <<>>
    /\ processed_count = 0
    /\ error_count = 0
    /\ main_pc = "none"
    /\ summary = <<>>

NoDoc ==
    /\ doc = <<>>
    /\ doc_fault = "none"
    /\ doc_pc = "none"
    /\ max_pages = 0
    /\ page_num = 0
    /\ pages_content = <<>>
    /\ output_data = <<>>
    /\ doc_result = "pending"
    /\ doc_artifact = "absent"

Files == 1 .. pdf_files

\* The steps of the try block of process_single_pdf at which an exception can
\* be raised; "none" is a file whose pipeline raises nowhere.
FaultSteps == {"open", "pages", "aggregate", "open_output", "dump"}

\* A pool as large as the batch: the bound of 4 forgotten.
max_workers_unbounded == pdf_files

max_workers == Min(PoolLimit, pdf_files)

Workers == 1 .. max_workers

Idle == [file |-> 0, pc |-> "idle", tmp |-> 0]

\* The tasks of the executor's work queue are taken in submission order.
Started == {f \in Files : starts[f] > 0}

NextTask == Cardinality(Started) + 1

\* The state main builds before the first submit, for a batch of n files
\* with the faults of profile fp, file f being a document of lens[f] pages.
BatchStart(n, fp, lens) ==
    /\ pdf_files = n
    /\ fault = fp
    /\ num_pages = lens
    /\ page_steps = [f \in 1 .. pdf_files |-> 0]
    /\ submitted = 0
    /\ worker = [w \in Workers |-> Idle]
    /\ result = [f \in 1 .. pdf_files |-> "pending"]
    /\ artifact = [f \in 1 .. pdf_files |-> "absent"]
    /\ starts = [f \in 1 .. pdf_files |-> 0]
    /\ processed_count = 0
    /\ error_count = 0
    /\ main_pc = "submit"
    /\ summary = <<>>
    /\ NoCall
    /\ NoDoc

FaultProfiles(n) == [1 .. n -> FaultSteps \cup {"none"}]

\* Profiles of at most one faulty file.
OneFault(n) ==
    {p \in FaultProfiles(n) :
        \A f, g \in 1 .. n : p[f] # "none" /\ p[g] # "none" => f = g}

\* Documents without pages: the page loop takes no turn.
NoPages(n) == [f \in 1 .. n |-> 0]

\* Batches of up to MaxFiles files, each file free to fail at any step.
InitBatch ==
    \E n \in 1 .. MaxFiles : \E fp \in FaultProfiles(n) :
        BatchStart(n, fp, NoPages(n))

\* Batches of up to MaxPoolFiles files of which at most one is faulty.
InitPool ==
    \E n \in 1 .. MaxPoolFiles : \E fp \in OneFault(n) :
        BatchStart(n, fp, NoPages(n))

\* main: executor.submit(processor.process_single_pdf, pdf_file, output_dir)
Submit ==
    /\ main_pc = "submit"
    /\ submitted' = submitted + 1
    /\ main_pc' = IF submitted + 1 = pdf_files THEN "wait" ELSE "submit"
    /\ UNCHANGED <<pdf_files, fault, num_pages, page_steps, worker, result, artifact, starts,
                   processed_count, error_count, summary>>
    /\ UNCHANGED <<fn_vars, doc_vars>>

\* The file an idle pool thread takes from the work queue.
TakeTask == NextTask

\* A pool thread takes the next queued call and enters process_single_pdf.
\* The idle threads block on the same queue and are interchangeable: the
\* lowest-numbered idle one stands for whichever of them wakes up.
Start(w) ==
    /\ worker[w].pc = "idle"
    /\ \A v \in 1 .. (w - 1) : worker[v].pc # "idle"
    /\ NextTask <= submitted
    /\ LET f == TakeTask IN
         /\ worker' = [worker EXCEPT ![w] = [file |-> f, pc |-> "run", tmp |-> 0]]
         /\ starts' = [starts EXCEPT ![f] = @ + 1]
    /\ UNCHANGED <<pdf_files, fault, num_pages, page_steps, submitted, result, artifact,
                   processed_count, error_count, main_pc, summary>>
    /\ UNCHANGED <<fn_vars, doc_vars>>

\* A page loop that runs over every page of the document.
max_pages_uncapped(f) == num_pages[f]

\* max_pages = min(len(pdf.pages), 50), for the document of file f
max_pages_of(f) == Min(num_pages[f], MaxPages)

\* One turn of the page loop of the call a pool thread runs: the page is
\* fetched and process_page returns its PageContent.  No turn is taken when
\* pdfplumber.open raised.
PageStep(w) ==
    /\ worker[w].pc = "run"
    /\ LET f == worker[w].file IN
         /\ fault[f] # "open"
         /\ page_steps[f] < max_pages_of(f)
         /\ page_steps' = [page_steps EXCEPT ![f] = @ + 1]
    /\ UNCHANGED <<pdf_files, fault, num_pages, submitted, worker, result, artifact,
                   starts, processed_count, error_count, main_pc, summary>>
    /\ UNCHANGED <<fn_vars, doc_vars>>

\* What the try block leaves at the output path: open(output_file, 'w')
\* creates the file, json.dump fills it.
ArtifactAfter(step) ==
    CASE step = "none" -> "complete"
      [] step = "dump" -> "partial"
      [] OTHER -> "absent"

\* The try block of process_single_pdf up to the counter update: the steps
\* before the one that raises are executed, the rest are skipped.  The steps
\* after the page loop wait for its last turn; pdfplumber.open raises before
\* the loop and pdf.pages anywhere in it.
RunPipeline(w) ==
    /\ worker[w].pc = "run"
    /\ LET f == worker[w].file IN
         /\ fault[f] \in {"open", "pages"} \/ page_steps[f] = max_pages_of(f)
         /\ artifact' = [artifact EXCEPT ![f] = ArtifactAfter(fault[f])]
         /\ worker' = [worker EXCEPT ![w].pc =
                          IF fault[f] = "none" THEN "load_processed" ELSE "load_error"]
    /\ UNCHANGED <<pdf_files, fault, num_pages, page_steps, submitted, result, starts,
                   processed_count, error_count, main_pc, summary>>
    /\ UNCHANGED <<fn_vars, doc_vars>>

\* self.processed_count += 1 : the read of the attribute
LoadProcessed(w) ==
    /\ worker[w].pc = "load_processed"
    /\ worker' = [worker EXCEPT ![w].pc = "store_processed", ![w].tmp = processed_count]
    /\ UNCHANGED <<pdf_files, fault, num_pages, page_steps, submitted, result, artifact, starts,
                   processed_count, error_count, main_pc, summary>>
    /\ UNCHANGED <<fn_vars, doc_vars>>

\* self.processed_count += 1 : the write of the attribute; return True
StoreProcessed(w) ==
    /\ worker[w].pc = "store_processed"
    /\ processed_count' = worker[w].tmp + 1
    /\ result' = [result EXCEPT ![worker[w].file] = "true"]
    /\ worker' = [worker EXCEPT ![w] = Idle]
    /\ UNCHANGED <<pdf_files, fault, num_pages, page_steps, submitted, artifact, starts,
                   error_count, main_pc, summary>>
    /\ UNCHANGED <<fn_vars, doc_vars>>

\* except Exception: self.error_count += 1 : the read of the attribute
LoadError(w) ==
    /\ worker[w].pc = "load_error"
    /\ worker' = [worker EXCEPT ![w].pc = "store_error", ![w].tmp = error_count]
    /\ UNCHANGED <<pdf_files, fault, num_pages, page_steps, submitted, result, artifact, starts,
                   processed_count, error_count, main_pc, summary>>
    /\ UNCHANGED <<fn_vars, doc_vars>>

\* self.error_count += 1 : the write of the attribute; return False
StoreError(w) ==
    /\ worker[w].pc = "store_error"
    /\ error_count' = worker[w].tmp + 1
    /\ result' = [result EXCEPT ![worker[w].file] = "false"]
    /\ worker' = [worker EXCEPT ![w] = Idle]
    /\ UNCHANGED <<pdf_files, fault, num_pages, page_steps, submitted, artifact, starts,
                   processed_count, main_pc, summary>>
    /\ UNCHANGED <<fn_vars, doc_vars>>

\* concurrent.futures.wait(futures), the executor's shutdown and the summary log
Summary ==
    /\ main_pc = "wait"
    /\ \A f \in Files : result[f] # "pending"
    /\ main_pc' = "done"
    /\ summary' = <<processed_count, error_count>>
    /\ UNCHANGED <<pdf_files, fault, num_pages, page_steps, submitted, worker, result, artifact, starts,
                   processed_count, error_count>>
    /\ UNCHANGED <<fn_vars, doc_vars>>

NextBatch ==
    \/ Submit
    \/ \E w \in Workers : Start(w)
    \/ \E w \in Workers : RunPipeline(w)
    \/ \E w \in Workers : LoadProcessed(w)
    \/ \E w \in Workers : StoreProcessed(w)
    \/ \E w \in Workers : LoadError(w)
    \/ \E w \in Workers : StoreError(w)
    \/ Summary

Spec == InitBatch /\ [][NextBatch]_vars

SpecPool == InitPool /\ [][NextBatch]_vars

(***************************************************************************)
(* The batch with the page loop of every call spelled out, under fair      *)
(* scheduling.  main is a thread that runs on: it submits every file and,  *)
(* once wait() returns, logs the summary.  Every pool thread is an OS      *)
(* thread that gets its turn when it can take one, and every call into the *)
(* PDF library returns, so a turn of the page loop is one step.            *)
(***************************************************************************)
\* The lengths of the long document of a batch: none, one page, the page cap
\* and beyond it.
RunLengths == {0, 1, MaxPages, MaxRunPages}

\* Profiles in which only the file submitted last may be faulty.
LastFault(n) == {p \in FaultProfiles(n) : \A f \in 1 .. (n - 1) : p[f] = "none"}

\* Batches of up to MaxRunFiles files, the last of which may be faulty, one
\* of the files a document of a length of RunLengths and the others
\* documents of one page; and batches of up to MaxQueueFiles sound files,
\* more than the pool has threads, of which the one submitted last, which
\* waits for a free thread, has a page.
InitRun ==
    \/ \E n \in 1 .. MaxRunFiles : \E fp \in LastFault(n) :
           \E k \in 1 .. n : \E len \in RunLengths :
               BatchStart(n, fp, [f \in 1 .. n |-> IF f = k THEN len ELSE 1])
    \/ \E n \in 1 .. MaxQueueFiles :
           BatchStart(n, [f \in 1 .. n |-> "none"],
                      [f \in 1 .. n |-> IF f = n THEN 1 ELSE 0])

NextRun ==
    \/ NextBatch
    \/ \E w \in Workers : PageStep(w)

\* What pool thread w can do next.
WorkerStep(w) ==
    /\ w \in Workers
    /\ \/ Start(w)
       \/ PageStep(w)
       \/ RunPipeline(w)
       \/ LoadProcessed(w)
       \/ StoreProcessed(w)
       \/ LoadError(w)
       \/ StoreError(w)

Fairness ==
    /\ WF_vars(Submit)
    /\ WF_vars(Summary)
    /\ \A w \in 1 .. PoolLimit : WF_vars(WorkerStep(w))

SpecRun == InitRun /\ [][NextRun]_vars /\ Fairness

(***************************************************************************)
(* Text: a Python str is a sequence of one-character strings.              *)
(***************************************************************************)
UpperSeq == <<"A","B","C","D","E","F","G","H","I","J","K","L","M",
              "N","O","P","Q","R","S","T","U","V","W","X","Y","Z">>

LowerSeq == <<"a","b","c","d","e","f","g","h","i","j","k","l","m",
              "n","o","p","q","r","s","t","u","v","w","x","y","z">>

UpperLetters == {UpperSeq[i] : i \in 1 .. Len(UpperSeq)}

LowerLetters == {LowerSeq[i] : i \in 1 .. Len(LowerSeq)}

Letters == UpperLetters \cup LowerLetters

Digits == {"0","1","2","3","4","5","6","7","8","9"}

\* what str.strip(), str.split() and the pattern \s take for whitespace
Whitespace == {" ", "\t", "\n", "\r"}

\* the pattern \w, which decides where \b matches
WordChars == Letters \cup Digits \cup {"_"}

\* c.lower()
LowerChar(c) ==
    IF c \in UpperLetters
    THEN LowerSeq[CHOOSE i \in 1 .. Len(UpperSeq) : UpperSeq[i] = c]
    ELSE c

\* s.lower()
LowerStr(s) == [i \in 1 .. Len(s) |-> LowerChar(s[i])]

\* A slice that cuts nothing off.
TakeAll(s, n) == s

\* s[:n]
Take(s, n) == SubSeq(s, 1, Min(Len(s), n))

\* s.strip()
Strip(s) ==
    IF \A i \in 1 .. Len(s) : s[i] \in Whitespace
    THEN <<>>
    ELSE LET first == CHOOSE i \in 1 .. Len(s) :
                          /\ s[i] \notin Whitespace
                          /\ \A j \in 1 .. (i - 1) : s[j] \in Whitespace
             last == CHOOSE i \in 1 .. Len(s) :
                         /\ s[i] \notin Whitespace
                         /\ \A j \in (i + 1) .. Len(s) : s[j] \in Whitespace
         IN SubSeq(s, first, last)

\* s.split('\n'), from position start on
RECURSIVE SplitFrom(_, _)
SplitFrom(s, start) ==
    IF \A i \in start .. Len(s) : s[i] # "\n"
    THEN <<SubSeq(s, start, Len(s))>>
    ELSE LET nl == CHOOSE i \in start .. Len(s) :
                       /\ s[i] = "\n"
                       /\ \A j \in start .. (i - 1) : s[j] # "\n"
         IN <<SubSeq(s, start, nl - 1)>> \o SplitFrom(s, nl + 1)

SplitLines(s) == SplitFrom(s, 1)

\* len(s.split()): the number of maximal runs of non-whitespace
WordCount(s) ==
    Cardinality({i \in 1 .. Len(s) :
                    /\ s[i] \notin Whitespace
                    /\ (i = 1 \/ s[i - 1] \in Whitespace)})

\* s.isupper(): some cased character, and no lower-case one
IsUpper(s) ==
    /\ \E i \in 1 .. Len(s) : s[i] \in UpperLetters
    /\ \A i \in 1 .. Len(s) : s[i] \notin LowerLetters

\* the first position from start on where s leaves the class cls
RunEnd(s, start, cls) ==
    IF \A j \in start .. Len(s) : s[j] \in cls
    THEN Len(s) + 1
    ELSE CHOOSE p \in start .. Len(s) :
             /\ s[p] \notin cls
             /\ \A j \in start .. (p - 1) : s[j] \in cls

\* the length of the longest run of characters of class cls that starts at
\* position start of s
RunLength(s, start, cls) == RunEnd(s, start, cls) - start

\* re.match(r'^\d+\.?\s+[A-Z]', s)
NumberedMatch(s) ==
    LET d == IF Len(s) = 0 THEN 0 ELSE RunLength(s, 1, Digits)
        p == IF d + 1 <= Len(s) /\ s[d + 1] = "." THEN d + 2 ELSE d + 1
        w == IF p <= Len(s) THEN RunLength(s, p, Whitespace) ELSE 0
    IN /\ d >= 1
       /\ w >= 1
       /\ p + w <= Len(s)
       /\ s[p + w] \in UpperLetters

\* sep.join(parts)
RECURSIVE Join(_, _)
Join(parts, sep) ==
    IF Len(parts) = 0 THEN <<>>
    ELSE IF Len(parts) = 1 THEN parts[1]
    ELSE parts[1] \o sep \o Join(Tail(parts), sep)

(***************************************************************************)
(* PDFProcessor.extract_headings                                           *)
(***************************************************************************)
UpperMinLen == 3        \* len(line) > 3
UpperMaxLen == 100      \* len(line) < 100
TitleMaxLen == 50       \* len(line) < 50
TitleNextMinLen == 20   \* len(lines[i + 1].strip()) > 20
MaxHeadings == 20       \* headings[:20]

UpperRule(line) ==
    IsUpper(line) /\ Len(line) > UpperMinLen /\ Len(line) < UpperMaxLen

\* lines is the split text, i the 0-based index of the line, line its strip
TitleRule(lines, i, line) ==
    /\ Len(line) < TitleMaxLen
    /\ i < Len(lines) - 1
    /\ Len(Strip(lines[i + 2])) > TitleNextMinLen
    /\ line[1] \in UpperLetters

Heading(line, type, i) == [text |-> line, type |-> type, line_number |-> i + 1]

\* The if / elif / elif chain with the numbered pattern tried first.
ClassifyNumberedFirst(lines, i, line) ==
    IF NumberedMatch(line) THEN <<Heading(line, "numbered", i)>>
    ELSE IF UpperRule(line) THEN <<Heading(line, "uppercase", i)>>
    ELSE IF TitleRule(lines, i, line) THEN <<Heading(line, "title", i)>>
    ELSE <<>>

\* The if / elif / elif chain of the loop body: what line i appends.
Classify(lines, i, line) ==
    IF UpperRule(line) THEN <<Heading(line, "uppercase", i)>>
    ELSE IF NumberedMatch(line) THEN <<Heading(line, "numbered", i)>>
    ELSE IF TitleRule(lines, i, line) THEN <<Heading(line, "title", i)>>
    ELSE <<>>

\* for i, line in enumerate(lines), from index i on
RECURSIVE HeadingsLoop(_, _)
HeadingsLoop(lines, i) ==
    IF i >= Len(lines) THEN <<>>
    ELSE LET line == Strip(lines[i + 1])
         IN (IF Len(line) = 0 THEN <<>> ELSE Classify(lines, i, line))
                \o HeadingsLoop(lines, i + 1)

extract_headings(text) == Take(HeadingsLoop(SplitLines(text), 0), MaxHeadings)

(***************************************************************************)
(* PDFProcessor.extract_tables                                             *)
(*                                                                         *)
(* A page of the PDF library is a record: text and text_raises (what       *)
(* extract_text returns, or that it raises), images and images_raises      *)
(* (len(page.images)), tables and tables_raises (extract_tables: a list of *)
(* tables, a table a list of rows, a row a list of cells, a cell a str or  *)
(* None).                                                                  *)
(***************************************************************************)
MaxTableRows == 10      \* cleaned_table[:10]

\* Python's None, where a str is expected
None == <<"None">>

\* bool(cell): neither None nor ''
Truthy(cell) == cell # None /\ cell # <<>>

\* row and any(cell for cell in row if cell and str(cell).strip())
KeepRow(row) ==
    /\ Len(row) > 0
    /\ \E j \in 1 .. Len(row) : Truthy(row[j]) /\ Strip(row[j]) # <<>>

\* [str(cell).strip() if cell else '' for cell in row]
CleanRow(row) ==
    [j \in 1 .. Len(row) |-> IF Truthy(row[j]) THEN Strip(row[j]) ELSE <<>>]

\* for row in table, from row r on
RECURSIVE CleanTable(_, _)
CleanTable(table, r) ==
    IF r > Len(table) THEN <<>>
    ELSE (IF KeepRow(table[r]) THEN <<CleanRow(table[r])>> ELSE <<>>)
             \o CleanTable(table, r + 1)

TableRecord(i, cleaned_table) ==
    [table_id |-> i + 1,
     rows |-> Len(cleaned_table),
     columns |-> Len(cleaned_table[1]),
     data |-> Take(cleaned_table, MaxTableRows)]

\* for i, table in enumerate(page_tables), from index i on
RECURSIVE TablesLoop(_, _)
TablesLoop(page_tables, i) ==
    IF i >= Len(page_tables) THEN <<>>
    ELSE LET table == page_tables[i + 1]
             cleaned_table == CleanTable(table, 1)
         IN (IF Len(table) > 1 /\ Len(cleaned_table) > 0
             THEN <<TableRecord(i, cleaned_table)>>
             ELSE <<>>)
                \o TablesLoop(page_tables, i + 1)

\* page.extract_tables() raising is caught: the list is still empty then
extract_tables(page) ==
    IF page.tables_raises THEN <<>> ELSE TablesLoop(page.tables, 0)

(***************************************************************************)
(* PDFProcessor.process_page                                               *)
(***************************************************************************)
MaxPageText == 5000     \* text[:5000]

PageContent(page_number, text, word_count, has_images, tables, headings) ==
    [page_number |-> page_number, text |-> text, word_count |-> word_count,
     has_images |-> has_images, tables |-> tables, headings |-> headings]

\* The except branch: what is returned when the try block raises.
FailedPage(number) == PageContent(number, <<>>, 0, FALSE, <<>>, <<>>)

process_page(page, number) ==
    IF page.text_raises \/ page.images_raises
    THEN FailedPage(number)
    ELSE LET text == IF page.text = None THEN <<>> ELSE page.text
             has_images == page.images > 0
             tables == extract_tables(page)
             headings == extract_headings(text)
             word_count == IF Len(text) > 0 THEN WordCount(text) ELSE 0
         IN PageContent(number, Take(text, MaxPageText), word_count,
                        has_images, tables, headings)

(***************************************************************************)
(* PDFProcessor.extract_document_structure                                 *)
(***************************************************************************)
MinWordLen == 4         \* [A-Za-z]{4,}
MinFrequency == 2       \* freq > 2
MaxKeywords == 10       \* len(keywords) >= 10

\* sum(...) of a generator, whose values are the sequence nums, from value
\* i on
RECURSIVE SumFrom(_, _)
SumFrom(nums, i) ==
    IF i > Len(nums) THEN 0 ELSE nums[i] + SumFrom(nums, i + 1)

\* A match of \b[A-Za-z]{4,}\b starts at i: a letter that follows no word
\* character, whose run of letters is of 4 or more and is followed by no
\* word character.
WordStart(s, i) ==
    /\ s[i] \in Letters
    /\ (i = 1 \/ s[i - 1] \notin WordChars)
    /\ LET e == RunEnd(s, i, Letters)
       IN e - i >= MinWordLen /\ (e > Len(s) \/ s[e] \notin WordChars)

\* re.findall(r'\b[A-Za-z]{4,}\b', s), from position pos on
RECURSIVE FindWords(_, _)
FindWords(s, pos) ==
    IF \A i \in pos .. Len(s) : ~WordStart(s, i)
    THEN <<>>
    ELSE LET i == CHOOSE i \in pos .. Len(s) :
                      WordStart(s, i) /\ \A j \in pos .. (i - 1) : ~WordStart(s, j)
             e == RunEnd(s, i, Letters)
         IN <<SubSeq(s, i, e - 1)>> \o FindWords(s, e)

\* The items of word_freq in insertion order: the words from position k on
\* that occurred at no earlier position, each with its count.
RECURSIVE WordFreq(_, _)
WordFreq(words, k) ==
    IF k > Len(words) THEN <<>>
    ELSE (IF \E j \in 1 .. (k - 1) : words[j] = words[k]
          THEN <<>>
          ELSE <<[word |-> words[k],
                  freq |-> Cardinality({j \in 1 .. Len(words) : words[j] = words[k]})]>>)
             \o WordFreq(words, k + 1)

\* sorted(items, key=lambda x: x[1], reverse=True): by frequency, the
\* higher first; the sort is stable, equal frequencies keep their order
SortedByFreq(items) ==
    LET Before(j, k) ==
            \/ items[j].freq > items[k].freq
            \/ items[j].freq = items[k].freq /\ j < k
        Rank(k) == 1 + Cardinality({j \in 1 .. Len(items) : Before(j, k)})
    IN [r \in 1 .. Len(items) |-> items[CHOOSE k \in 1 .. Len(items) : Rank(k) = r]]

common_words ==
    { <<"t", "h", "i", "s">>, <<"t", "h", "a", "t">>, <<"w", "i", "t", "h">>,
      <<"h", "a", "v", "e">>, <<"w", "i", "l", "l">>, <<"f", "r", "o", "m">>,
      <<"t", "h", "e", "y">>, <<"b", "e", "e", "n">>, <<"s", "a", "i", "d">>,
      <<"e", "a", "c", "h">>, <<"w", "h", "i", "c", "h">>,
      <<"t", "h", "e", "i", "r">>, <<"t", "i", "m", "e">>,
      <<"m", "o", "r", "e">>, <<"v", "e", "r", "y">>, <<"w", "h", "a", "t">>,
      <<"k", "n", "o", "w">>, <<"j", "u", "s", "t">>,
      <<"f", "i", "r", "s", "t">>, <<"i", "n", "t", "o">>,
      <<"o", "v", "e", "r">>, <<"t", "h", "i", "n", "k">>,
      <<"a", "l", "s", "o">>, <<"y", "o", "u", "r">>, <<"w", "o", "r", "k">>,
      <<"l", "i", "f", "e">>, <<"o", "n", "l", "y">>, <<"c", "a", "n">>,
      <<"s", "t", "i", "l", "l">>, <<"s", "h", "o", "u", "l", "d">>,
      <<"a", "f", "t", "e", "r">>, <<"b", "e", "i", "n", "g">>,
      <<"n", "o", "w">>, <<"m", "a", "d", "e">>,
      <<"b", "e", "f", "o", "r", "e">>, <<"h", "e", "r", "e">>,
      <<"t", "h", "r", "o", "u", "g", "h">>, <<"w", "h", "e", "n">>,
      <<"w", "h", "e", "r", "e">>, <<"m", "u", "c", "h">>,
      <<"g", "o", "o", "d">>, <<"s", "o", "m", "e">>,
      <<"c", "o", "u", "l", "d">>, <<"t", "h", "e", "m">>, <<"s", "e", "e">>,
      <<"o", "t", "h", "e", "r">>, <<"t", "h", "a", "n">>,
      <<"t", "h", "e", "n">>, <<"l", "o", "o", "k">>, <<"c", "o", "m", "e">>,
      <<"i", "t", "s">>, <<"b", "a", "c", "k">>, <<"u", "s", "e">>,
      <<"h", "e", "r">>, <<"o", "u", "r">>, <<"o", "u", "t">>,
      <<"d", "a", "y">>, <<"g", "e", "t">>, <<"h", "a", "s">>,
      <<"h", "i", "m">>, <<"h", "i", "s">>, <<"h", "o", "w">>,
      <<"m", "a", "n">>, <<"n", "e", "w">>, <<"o", "l", "d">>,
      <<"t", "w", "o">>, <<"w", "a", "y">>, <<"w", "h", "o">>,
      <<"b", "o", "y">>, <<"d", "i", "d">>, <<"n", "u", "m", "b", "e", "r">>,
      <<"p", "a", "r", "t">>, <<"s", "o", "u", "n", "d">>,
      <<"t", "a", "k", "e">>, <<"t", "u", "r", "n">>, <<"w", "a", "n", "t">>,
      <<"p", "l", "a", "c", "e">>, <<"y", "e", "a", "r">>,
      <<"g", "i", "v", "e">>, <<"m", "o", "s", "t">>,
      <<"t", "h", "i", "n", "g">>, <<"n", "a", "m", "e">>,
      <<"s", "e", "n", "t", "e", "n", "c", "e">>, <<"s", "a", "y">>,
      <<"g", "r", "e", "a", "t">>, <<"h", "e", "l", "p">>,
      <<"l", "i", "n", "e">>, <<"r", "i", "g", "h", "t">>, <<"t", "o", "o">>,
      <<"m", "e", "a", "n">>, <<"a", "n", "y">>, <<"s", "a", "m", "e">>,
      <<"t", "e", "l", "l">>, <<"f", "o", "l", "l", "o", "w">>,
      <<"c", "a", "m", "e">>, <<"s", "h", "o", "w">>,
      <<"a", "r", "o", "u", "n", "d">>, <<"f", "o", "r", "m">>,
      <<"t", "h", "r", "e", "e">>, <<"s", "m", "a", "l", "l">>,
      <<"s", "e", "t">>, <<"p", "u", "t">>, <<"e", "n", "d">>,
      <<"w", "h", "y">>, <<"a", "g", "a", "i", "n">>, <<"a", "s", "k">>,
      <<"w", "e", "n", "t">>, <<"m", "e", "n">>, <<"r", "e", "a", "d">>,
      <<"n", "e", "e", "d">>, <<"l", "a", "n", "d">>,
      <<"d", "i", "f", "f", "e", "r", "e", "n", "t">>, <<"h", "o", "m", "e">>,
      <<"u", "s">>, <<"m", "o", "v", "e">>, <<"t", "r", "y">>,
      <<"k", "i", "n", "d">>, <<"h", "a", "n", "d">>,
      <<"p", "i", "c", "t", "u", "r", "e">>, <<"c", "h", "a", "n", "g", "e">>,
      <<"o", "f", "f">>, <<"p", "l", "a", "y">>, <<"s", "p", "e", "l", "l">>,
      <<"a", "i", "r">>, <<"a", "w", "a", "y">>,
      <<"a", "n", "i", "m", "a", "l">>, <<"h", "o", "u", "s", "e">>,
      <<"p", "o", "i", "n", "t">>, <<"p", "a", "g", "e">>,
      <<"l", "e", "t", "t", "e", "r">>, <<"m", "o", "t", "h", "e", "r">>,
      <<"a", "n", "s", "w", "e", "r">>, <<"f", "o", "u", "n", "d">>,
      <<"s", "t", "u", "d", "y">>, <<"l", "e", "a", "r", "n">>,
      <<"a", "m", "e", "r", "i", "c", "a">>, <<"w", "o", "r", "l", "d">> }

\* word not in common_words and freq > 2
Kept(item) == item.word \notin common_words /\ item.freq > MinFrequency

\* for word, freq in sorted(...), from item i on, with the break at 10
RECURSIVE KeywordsLoop(_, _, _)
KeywordsLoop(items, i, keywords) ==
    IF i > Len(items) THEN keywords
    ELSE IF Kept(items[i])
         THEN LET more == Append(keywords, [word |-> items[i].word,
                                            frequency |-> items[i].freq])
              IN IF Len(more) >= MaxKeywords
                 THEN more
                 ELSE KeywordsLoop(items, i + 1, more)
         ELSE KeywordsLoop(items, i + 1, keywords)

Space == <<" ">>

PageTexts(pages) == [i \in 1 .. Len(pages) |-> pages[i].text]

\* An average that divides by one page too many.
AverageOffByOne(total_words, pages) ==
    total_words \div (Len(pages) + 1)

\* total_words // len(pages_content) if pages_content else 0
Average(total_words, pages) ==
    IF Len(pages) > 0 THEN total_words \div Len(pages) ELSE 0

extract_document_structure(pages) ==
    LET n == Len(pages)
        total_words == SumFrom([i \in 1 .. n |-> pages[i].word_count], 1)
        all_text == Join(PageTexts(pages), Space)
        words == FindWords(LowerStr(all_text), 1)
        word_freq == WordFreq(words, 1)
    IN [total_words |-> total_words,
        total_tables |-> SumFrom([i \in 1 .. n |-> Len(pages[i].tables)], 1),
        total_headings |-> SumFrom([i \in 1 .. n |-> Len(pages[i].headings)], 1),
        pages_with_images |->
            SumFrom([i \in 1 .. n |-> IF pages[i].has_images THEN 1 ELSE 0], 1),
        keywords |-> KeywordsLoop(SortedByFreq(word_freq), 1, <<>>),
        average_words_per_page |-> Average(total_words, pages)]

(***************************************************************************)
(* PDFProcessor.process_single_pdf: the output assembled from the page     *)
(* results.  document_info (file name, timestamp, metadata) is left out:   *)
(* extract_metadata catches its own failures and nothing below reads it.   *)
(***************************************************************************)
MaxFullText == 10000    \* [:10000]
PreviewLen == 200       \* page.text[:200]

Ellipsis == <<".", ".", ".">>

PageSummary(page) ==
    [page_number |-> page.page_number,
     word_count |-> page.word_count,
     has_images |-> page.has_images,
     table_count |-> Len(page.tables),
     heading_count |-> Len(page.headings),
     preview_text |-> IF Len(page.text) > PreviewLen
                      THEN Take(page.text, PreviewLen) \o Ellipsis
                      ELSE page.text]

\* [x for page in pages_content for x in page.<list>], the per-page lists
\* being the sequence lists, from page i on
RECURSIVE Flatten(_, _)
Flatten(lists, i) ==
    IF i > Len(lists) THEN <<>> ELSE lists[i] \o Flatten(lists, i + 1)

OutputData(pages) ==
    LET n == Len(pages)
    IN [content_analysis |->
            [structure |-> extract_document_structure(pages),
             pages |-> [i \in 1 .. n |-> PageSummary(pages[i])]],
        extracted_data |->
            [tables |-> Flatten([i \in 1 .. n |-> pages[i].tables], 1),
             headings |-> Flatten([i \in 1 .. n |-> pages[i].headings], 1),
             full_text |-> Take(Join(PageTexts(pages), Space), MaxFullText)]]

(***************************************************************************)
(* Calls of extract_headings on page texts.                                *)
(***************************************************************************)
Rep(c, n) == [i \in 1 .. n |-> c]

\* All sequences of at most n elements of S.
SeqsUpTo(S, n) == UNION {[1 .. k -> S] : k \in 0 .. n}

\* "ABCD": an upper-case line
L_upper == <<"A", "B", "C", "D">>

\* "1. Ab": a numbered line
L_numbered == <<"1", ".", " ", "A", "b">>

\* The lines the page texts are made of: each rule met, missed, and met at
\* and next to the length limits; blank lines; lines that meet two rules.
HeadingLines ==
    { <<>>,
      <<" ">>,
      <<"A", "B", "C">>,
      L_upper,
      <<" ", "A", "B", "C", "D", "\t">>,
      <<"1", ".", " ", "A", "B", "C", "D">>,
      <<"1", "2", " ", "A", "B">>,
      L_numbered,
      <<"1", ".", "A", "b">>,
      <<"1", ".", " ", "a", "b">>,
      <<"A", "b">>,
      <<"a", "b">>,
      Rep("a", TitleNextMinLen),
      Rep("a", TitleNextMinLen + 1),
      Rep("A", UpperMaxLen - 1),
      Rep("A", UpperMaxLen),
      <<"A">> \o Rep("a", TitleMaxLen - 2),
      <<"A">> \o Rep("a", TitleMaxLen - 1) }

NewLine == <<"\n">>

HeadingTexts ==
    {Join(ls, NewLine) : ls \in SeqsUpTo(HeadingLines, MaxLines)}
    \cup {Join([i \in 1 .. k |-> IF i % 3 = 0 THEN L_numbered ELSE L_upper], NewLine) :
             k \in (MaxHeadings - 1) .. (MaxHeadings + HeadingsOver)}

InitHeadings ==
    /\ fn_arg \in HeadingTexts
    /\ fn_ret = <<>>
    /\ fn_pc = "call"
    /\ NoBatch
    /\ NoDoc

\* headings = self.extract_headings(text)
CallHeadings ==
    /\ fn_pc = "call"
    /\ fn_ret' = extract_headings(fn_arg)
    /\ fn_pc' = "done"
    /\ UNCHANGED <<fn_arg, batch_vars, doc_vars>>

SpecHeadings == InitHeadings /\ [][CallHeadings]_vars

\* C6: every heading is the stripped, non-blank line at its 1-indexed
\* position in the newline split of the text; the positions increase
\* strictly (input order, at most one heading per line); the type is that of
\* the first rule the line meets in the order uppercase, numbered, title, so
\* a line meeting the uppercase rule and the numbered pattern is "uppercase";
\* and a line that meets a rule is left out only by the cap on the list.
C6_FirstRuleWins ==
    fn_pc = "done" =>
        LET lines == SplitLines(fn_arg)
            H == fn_ret
        IN /\ \A k \in 1 .. Len(H) :
                 /\ H[k].line_number \in 1 .. Len(lines)
                 /\ H[k].text = Strip(lines[H[k].line_number])
                 /\ H[k].text # <<>>
                 /\ UpperRule(H[k].text) => H[k].type = "uppercase"
                 /\ ~UpperRule(H[k].text) /\ NumberedMatch(H[k].text)
                        => H[k].type = "numbered"
                 /\ ~UpperRule(H[k].text) /\ ~NumberedMatch(H[k].text)
                        => /\ H[k].type = "title"
                           /\ TitleRule(lines, H[k].line_number - 1, H[k].text)
           /\ \A k \in 1 .. (Len(H) - 1) : H[k].line_number < H[k + 1].line_number
           /\ \A i \in 1 .. Len(lines) :
                 LET line == Strip(lines[i])
                 IN (/\ line # <<>>
                     /\ \/ UpperRule(line)
                        \/ NumberedMatch(line)
                        \/ TitleRule(lines, i - 1, line))
                        => \/ \E k \in 1 .. Len(H) : H[k].line_number = i
                           \/ Len(H) = MaxHeadings /\ H[MaxHeadings].line_number < i

\* A line that meets the uppercase rule and the numbered pattern, after a
\* blank line, came out as the second heading and is typed "uppercase".
C6_Witness ==
    /\ fn_pc = "done"
    /\ Len(fn_ret) = 2
    /\ fn_ret[2].type = "uppercase"
    /\ NumberedMatch(fn_ret[2].text)
    /\ fn_ret[2].line_number = 3
    /\ fn_ret[1].line_number = 1

(***************************************************************************)
(* Calls of extract_tables on pages.                                       *)
(***************************************************************************)
R_empty == <<>>

\* None, '' and ' ': a row with nothing in it
R_blank == <<None, <<>>, <<" ">>>>

R_header == <<<<"H">>, <<"h">>>>

R_data == <<<<" ", "x", " ">>, None>>

RawRows == {R_empty, R_blank, R_header, R_data}

RawTables ==
    SeqsUpTo(RawRows, MaxRows)
    \cup {[r \in 1 .. k |-> IF r = 2 THEN R_blank ELSE R_data] :
             k \in MaxTableRows .. (MaxTableRows + 1 + RowsOver)}

TablePage(tables, raises) ==
    [text |-> <<>>, text_raises |-> FALSE, images |-> 0, images_raises |-> FALSE,
     tables |-> tables, tables_raises |-> raises]

TablePages ==
    {TablePage(ts, FALSE) : ts \in SeqsUpTo(RawTables, MaxTables)}
    \cup {TablePage(<<>>, TRUE)}

InitTables ==
    /\ fn_arg \in TablePages
    /\ fn_ret = <<>>
    /\ fn_pc = "call"
    /\ NoBatch
    /\ NoDoc

\* tables = self.extract_tables(page)
CallTables ==
    /\ fn_pc = "call"
    /\ fn_ret' = extract_tables(fn_arg)
    /\ fn_pc' = "done"
    /\ UNCHANGED <<fn_arg, batch_vars, doc_vars>>

SpecTables == InitTables /\ [][CallTables]_vars

\* A row that is empty, or whose cells are all None, empty or whitespace.
BlankRow(row) ==
    \A j \in 1 .. Len(row) : row[j] = None \/ Strip(row[j]) = <<>>

\* C7: no table of the output comes from a raw table of 1 row, from a raw
\* table whose only data row (the row after the header) is blank, or from a
\* raw table whose rows are all blank.
C7_HeaderOnlyDropped ==
    fn_pc = "done" /\ ~fn_arg.tables_raises =>
        \A i \in 1 .. Len(fn_arg.tables) :
            LET table == fn_arg.tables[i]
                emitted == \E k \in 1 .. Len(fn_ret) : fn_ret[k].table_id = i
            IN /\ Len(table) = 1 => ~emitted
               /\ Len(table) = 2 /\ BlankRow(table[2]) => ~emitted
               /\ (\A r \in 1 .. Len(table) : BlankRow(table[r])) => ~emitted

(***************************************************************************)
(* Calls of the aggregation on lists of page results.                      *)
(***************************************************************************)
\* "INTRODUCTION\nThis chapter explains the setup process in detail."
T_intro ==
    << "I", "N", "T", "R", "O", "D", "U", "C", "T", "I", "O", "N", "\n",
       "T", "h", "i", "s", " ", "c", "h", "a", "p", "t", "e", "r", " ", "e",
       "x", "p", "l", "a", "i", "n", "s", " ", "t", "h", "e", " ", "s", "e",
       "t", "u", "p", " ", "p", "r", "o", "c", "e", "s", "s", " ", "i", "n",
       " ", "d", "e", "t", "a", "i", "l", "." >>

\* "Data data DATA plan"
T_data ==
    << "D", "a", "t", "a", " ", "d", "a", "t", "a", " ", "D", "A", "T", "A",
       " ", "p", "l", "a", "n" >>

\* "ABCD\n1. Ab\nab cd"
T_lines ==
    << "A", "B", "C", "D", "\n", "1", ".", " ", "A", "b", "\n", "a", "b",
       " ", "c", "d" >>

GoodTable == <<R_header, R_data>>

LibPage(text, images, tables) ==
    [text |-> text, text_raises |-> FALSE, images |-> images, images_raises |-> FALSE,
     tables |-> tables, tables_raises |-> FALSE]

\* Pages as the library hands them over: without text, with text, images
\* and tables, and with each of the three extractions raising.
SamplePages ==
    { LibPage(None, 0, <<>>),
      LibPage(T_intro, 0, <<>>),
      LibPage(T_data, 2, <<GoodTable>>),
      LibPage(T_lines, 0, <<GoodTable, <<R_header>>, GoodTable>>),
      [LibPage(T_intro, 1, <<GoodTable>>) EXCEPT !.text_raises = TRUE],
      [LibPage(T_intro, 1, <<GoodTable>>) EXCEPT !.images_raises = TRUE],
      [LibPage(T_lines, 1, <<GoodTable>>) EXCEPT !.tables_raises = TRUE] }

\* The page results of a document whose pages are ps.
PageResults(ps) == [i \in 1 .. Len(ps) |-> process_page(ps[i], i)]

InitAssemble ==
    /\ fn_arg \in {PageResults(ps) : ps \in SeqsUpTo(SamplePages, MaxCallPages)}
    /\ fn_ret = <<>>
    /\ fn_pc = "call"
    /\ NoBatch
    /\ NoDoc

\* document_structure = self.extract_document_structure(pages_content) and
\* the output_data built around it
CallAssemble ==
    /\ fn_pc = "call"
    /\ fn_ret' = OutputData(fn_arg)
    /\ fn_pc' = "done"
    /\ UNCHANGED <<fn_arg, batch_vars, doc_vars>>

SpecAssemble == InitAssemble /\ [][CallAssemble]_vars

\* The number of pairs <<i, k>> with k from 1 to counts[i].
Pairs(counts) ==
    Cardinality(UNION {{<<i, k>> : k \in 1 .. counts[i]} : i \in 1 .. Len(counts)})

\* C10: total_words is the sum of the pages' word counts; total_tables and
\* total_headings are the sums of the pages' list lengths and the lengths
\* of the flattened lists of extracted_data; pages_with_images is the number
\* of pages with has_images; average_words_per_page is the integer quotient
\* of total_words by the number of pages, 0 without pages.
C10_StructureTotals ==
    fn_pc = "done" =>
        LET st == fn_ret.content_analysis.structure
            n == Len(fn_arg)
        IN /\ st.total_words = Pairs([i \in 1 .. n |-> fn_arg[i].word_count])
           /\ st.total_tables = Pairs([i \in 1 .. n |-> Len(fn_arg[i].tables)])
           /\ st.total_tables = Len(fn_ret.extracted_data.tables)
           /\ st.total_headings = Pairs([i \in 1 .. n |-> Len(fn_arg[i].headings)])
           /\ st.total_headings = Len(fn_ret.extracted_data.headings)
           /\ st.pages_with_images
                  = Cardinality({i \in 1 .. n : fn_arg[i].has_images})
           /\ n = 0 => st.average_words_per_page = 0
           /\ n > 0 => /\ st.average_words_per_page * n <= st.total_words
                       /\ st.total_words < (st.average_words_per_page + 1) * n

\* Three pages, one of them failed, with words that do not divide evenly,
\* tables, headings and a page with images.
C10_Witness ==
    /\ fn_pc = "done"
    /\ Len(fn_arg) = 3
    /\ \E i \in 1 .. 3 : fn_arg[i] = FailedPage(i)
    /\ LET st == fn_ret.content_analysis.structure
       IN /\ st.total_words % 3 # 0
          /\ st.average_words_per_page > 0
          /\ st.total_tables >= 2
          /\ st.total_headings >= 2
          /\ st.pages_with_images = 1

(***************************************************************************)
(* PDFProcessor.process_single_pdf on one document.                        *)
(*                                                                         *)
(* doc is pdf.pages, doc_fault the step of the try block that raises.  A   *)
(* fault of "pages" is pdf.pages raising somewhere in the page loop.       *)
(***************************************************************************)
\* A page limit without the cap.
PageLimitUncapped(pages) == Len(pages)

\* max_pages = min(len(pdf.pages), 50)
PageLimit(pages) == Min(Len(pages), MaxPages)

\* with pdfplumber.open(pdf_path) as pdf: max_pages = ...
OpenDocument ==
    /\ doc_pc = "open"
    /\ IF doc_fault = "open"
       THEN doc_pc' = "except" /\ UNCHANGED max_pages
       ELSE doc_pc' = "pages" /\ max_pages' = PageLimit(doc)
    /\ UNCHANGED <<doc, doc_fault, page_num, pages_content, output_data,
                   doc_result, doc_artifact, batch_vars, fn_vars>>

\* A page loop that gives the document up when a page fails to extract.
ProcessPageAborting ==
    /\ doc_pc = "pages"
    /\ page_num < max_pages
    /\ LET page == doc[page_num + 1]
       IN IF page.text_raises \/ page.images_raises \/ page.tables_raises
          THEN doc_pc' = "except" /\ UNCHANGED <<page_num, pages_content>>
          ELSE /\ pages_content' = Append(pages_content, process_page(page, page_num + 1))
               /\ page_num' = page_num + 1
               /\ UNCHANGED doc_pc
    /\ UNCHANGED <<doc, doc_fault, max_pages, output_data,
                   doc_result, doc_artifact, batch_vars, fn_vars>>

\* One turn of the loop: for page_num in range(max_pages)
ProcessPage ==
    /\ doc_pc = "pages"
    /\ page_num < max_pages
    /\ LET page == doc[page_num + 1]
           page_content == process_page(page, page_num + 1)
       IN pages_content' = Append(pages_content, page_content)
    /\ page_num' = page_num + 1
    /\ UNCHANGED <<doc, doc_fault, doc_pc, max_pages, output_data,
                   doc_result, doc_artifact, batch_vars, fn_vars>>

\* pdf.pages raises in the page loop
PagesRaise ==
    /\ doc_pc = "pages"
    /\ doc_fault = "pages"
    /\ doc_pc' = "except"
    /\ UNCHANGED <<doc, doc_fault, max_pages, page_num, pages_content, output_data,
                   doc_result, doc_artifact, batch_vars, fn_vars>>

\* The loop is over: extract_document_structure and output_data
Aggregate ==
    /\ doc_pc = "pages"
    /\ page_num = max_pages
    /\ doc_fault # "pages"
    /\ IF doc_fault = "aggregate"
       THEN doc_pc' = "except" /\ UNCHANGED output_data
       ELSE doc_pc' = "write" /\ output_data' = OutputData(pages_content)
    /\ UNCHANGED <<doc, doc_fault, max_pages, page_num, pages_content,
                   doc_result, doc_artifact, batch_vars, fn_vars>>

\* with open(output_file, 'w') as f: json.dump(...); the counter; return True
WriteOutput ==
    /\ doc_pc = "write"
    /\ doc_artifact' = ArtifactAfter(doc_fault)
    /\ IF doc_fault \in {"open_output", "dump"}
       THEN doc_pc' = "except" /\ UNCHANGED <<doc_result, processed_count>>
       ELSE /\ doc_pc' = "done"
            /\ doc_result' = "true"
            /\ processed_count' = processed_count + 1
    /\ UNCHANGED <<doc, doc_fault, max_pages, page_num, pages_content, output_data,
                   pdf_files, fault, num_pages, page_steps, submitted, worker, result, artifact, starts,
                   error_count, main_pc, summary, fn_vars>>

\* except Exception: the counter; return False
Except ==
    /\ doc_pc = "except"
    /\ doc_pc' = "done"
    /\ doc_result' = "false"
    /\ error_count' = error_count + 1
    /\ UNCHANGED <<doc, doc_fault, max_pages, page_num, pages_content, output_data,
                   doc_artifact, pdf_files, fault, num_pages, page_steps, submitted, worker, result,
                   artifact, starts, processed_count, main_pc, summary, fn_vars>>

NextDoc ==
    \/ OpenDocument
    \/ ProcessPage
    \/ PagesRaise
    \/ Aggregate
    \/ WriteOutput
    \/ Except

(***************************************************************************)
(* The documents process_single_pdf is run on.                             *)
(***************************************************************************)
\* "alpha beta gamma delta epsilon zeta theta iota kappa lambda sigma omega": 12 words that are no stop words
T_keywords ==
    << "a", "l", "p", "h", "a", " ", "b", "e", "t", "a", " ", "g", "a", "m",
       "m", "a", " ", "d", "e", "l", "t", "a", " ", "e", "p", "s", "i", "l",
       "o", "n", " ", "z", "e", "t", "a", " ", "t", "h", "e", "t", "a", " ",
       "i", "o", "t", "a", " ", "k", "a", "p", "p", "a", " ", "l", "a", "m",
       "b", "d", "a", " ", "s", "i", "g", "m", "a", " ", "o", "m", "e", "g",
       "a" >>

\* "this that once": two stop words and another word
T_stop ==
    << "t", "h", "i", "s", " ", "t", "h", "a", "t", " ", "o", "n", "c", "e" >>

\* A text that overruns every cap: more than 20 heading lines, more than 10
\* words that are no stop words and occur 3 times, two stop words that occur
\* 3 times, a word that occurs twice, and more than 5000 characters.
T_stress ==
    Join([i \in 1 .. (MaxHeadings + HeadingsOver) |-> L_upper], NewLine)
        \o NewLine
        \o T_stop \o Space \o T_stop \o Space
        \o <<"T", "h", "i", "s", " ", "t", "h", "a", "t">>
        \o NewLine
        \o Join([i \in 1 .. 3 |-> T_keywords], Space)
        \o NewLine
        \o Rep("x", MaxPageText)

\* A table of more rows than the cap, one of them blank.
BigTable ==
    [r \in 1 .. (MaxTableRows + 1 + RowsOver) |-> IF r = 2 THEN R_blank ELSE R_data]

StressPage == LibPage(T_stress, 1, <<BigTable, GoodTable>>)

LightPage == LibPage(<<"A", "b", " ", "c", "d">>, 0, <<>>)

\* The pages of a document of n pages that are all base but the one at k.
PagesWith(n, base, k, special) == [i \in 1 .. n |-> IF i = k THEN special ELSE base]

\* Documents of up to MaxDocPages pages of one kind, with one page of
\* another kind (a failing one, the overrunning one) at the first or last
\* position or at the cap.
LongDocs ==
    UNION {{PagesWith(n, base, k, special) :
               base \in {LightPage, LibPage(T_data, 1, <<GoodTable>>)},
               k \in {1, n, MaxPages, MaxPages + 1},
               special \in SamplePages \cup {StressPage}} :
           n \in 0 .. MaxDocPages}

\* Documents of a few pages of the sample kinds, in every order.
ShortDocs == SeqsUpTo(SamplePages, MaxShortDoc)

\* Documents whose pages all overrun the caps.
StressDocs == {[i \in 1 .. n |-> StressPage] : n \in 1 .. MaxStressDoc}

DocStart(pages, step) ==
    /\ doc = pages
    /\ doc_fault = step
    /\ doc_pc = "open"
    /\ max_pages = 0
    /\ page_num = 0
    /\ pages_content = <<>>
    /\ output_data = <<>>
    /\ doc_result = "pending"
    /\ doc_artifact = "absent"
    /\ NoBatch
    /\ NoCall

InitDoc ==
    \/ \E pages \in LongDocs \cup StressDocs : DocStart(pages, "none")
    \/ \E pages \in ShortDocs : \E step \in FaultSteps \cup {"none"} :
           DocStart(pages, step)

SpecDoc == InitDoc /\ [][NextDoc]_vars

(***************************************************************************)
(* Claims about one document.                                              *)
(***************************************************************************)
\* C4: the page summaries of a successfully processed document of P pages
\* carry the page numbers 1, 2, ..., min(P, 50), in this order.
C4_PageNumbers ==
    doc_result = "true" =>
        LET pages == output_data.content_analysis.pages
        IN /\ Len(pages) = Min(Len(doc), 50)
           /\ \A i \in 1 .. Len(pages) : pages[i].page_number = i

\* A document of more than 50 pages, one of the first 50 of which failed to
\* extract, was processed successfully.
C4_Witness ==
    /\ doc_result = "true"
    /\ Len(doc) > 50
    /\ \E i \in 1 .. 50 : doc[i].text_raises /\ pages_content[i] = FailedPage(i)

\* C5: in a successfully processed document every page's text has at most
\* 5000 characters and at most 20 headings, every table's data at most 10
\* rows, full_text at most 10000 characters, and there are at most 10
\* keywords, each of frequency above 2 and none a stop word.
C5_Caps ==
    doc_result = "true" =>
        LET data == output_data.extracted_data
            keywords == output_data.content_analysis.structure.keywords
        IN /\ \A i \in 1 .. Len(pages_content) :
                 /\ Len(pages_content[i].text) <= 5000
                 /\ Len(pages_content[i].headings) <= 20
                 /\ output_data.content_analysis.pages[i].heading_count <= 20
                 /\ \A t \in 1 .. Len(pages_content[i].tables) :
                        Len(pages_content[i].tables[t].data) <= 10
           /\ \A t \in 1 .. Len(data.tables) : Len(data.tables[t].data) <= 10
           /\ Len(data.full_text) <= 10000
           /\ Len(keywords) <= 10
           /\ \A k \in 1 .. Len(keywords) :
                 /\ keywords[k].frequency > 2
                 /\ keywords[k].word \notin common_words

\* A document whose pages overrun every cap was processed successfully: a
\* page text of more than 5000 characters, more than 20 heading lines, a
\* table of more than 10 rows, a joined text of more than 10000 characters
\* and more than 10 frequent words, with each list cut at its cap.
C5_Witness ==
    /\ doc_result = "true"
    /\ Len(doc) = 3
    /\ Len(doc[1].text) > 5000
    /\ Len(pages_content[1].text) = 5000
    /\ Len(pages_content[1].headings) = 20
    /\ pages_content[1].tables[1].rows > 10
    /\ Len(pages_content[1].tables[1].data) = 10
    /\ Len(output_data.extracted_data.full_text) = 10000
    /\ Len(output_data.content_analysis.structure.keywords) = 10

\* The page with nothing raising.
Healed(page) ==
    [page EXCEPT !.text_raises = FALSE, !.images_raises = FALSE, !.tables_raises = FALSE]

\* C8: a failing page never sends the call to its except branch; when the
\* call is over all min(P, 50) pages were processed and the call returned
\* True; a page whose text extraction or image check raised is
\* PageContent(k, '', 0, False, [], []); a page whose table extraction alone
\* raised is what it would be without the failure but for an empty table
\* list; and every other page is what it is in the document without
\* failures.
C8_PageFailureContained ==
    /\ doc_pc = "except" => doc_fault # "none"
    /\ doc_pc = "done" /\ doc_fault = "none" =>
          /\ doc_result = "true"
          /\ Len(pages_content) = Min(Len(doc), 50)
          /\ \A k \in 1 .. Len(pages_content) :
                LET page == doc[k]
                    got == pages_content[k]
                    healthy == process_page(Healed(page), k)
                IN /\ page.text_raises \/ page.images_raises =>
                          got = [page_number |-> k, text |-> <<>>, word_count |-> 0,
                                 has_images |-> FALSE, tables |-> <<>>,
                                 headings |-> <<>>]
                   /\ ~page.text_raises /\ ~page.images_raises /\ page.tables_raises =>
                          got = [healthy EXCEPT !.tables = <<>>]
                   /\ ~page.text_raises /\ ~page.images_raises /\ ~page.tables_raises =>
                          got = healthy

\* The image check of page 1 raised and the table extraction of page 2
\* raised; page 2 kept its words, its image flag and its headings.
C8_Witness ==
    /\ doc_pc = "done"
    /\ doc_result = "true"
    /\ Len(doc) = 2
    /\ doc[1].images_raises
    /\ doc[2].tables_raises
    /\ pages_content[1] = FailedPage(1)
    /\ pages_content[2].word_count > 0
    /\ pages_content[2].has_images
    /\ Len(pages_content[2].headings) > 0
    /\ pages_content[2].tables = <<>>

(***************************************************************************)
(* Claims about the batch.                                                 *)
(***************************************************************************)
Returned(v) == {f \in Files : result[f] = v}

Busy == {w \in Workers : worker[w].pc # "idle"}

\* C1: when the summary is reported, processed_count is the number of files
\* whose call returned True and error_count the number whose call returned
\* False, so that the two add up to the number of discovered files.
C1_TalliesExact ==
    main_pc = "done" =>
        /\ summary[1] = Cardinality(Returned("true"))
        /\ summary[2] = Cardinality(Returned("false"))
        /\ summary[1] + summary[2] = pdf_files

\* C2: a failure never stops the batch: when the run is over every file was
\* submitted and started once, has exactly one outcome, and every file that
\* failed is counted in error_count.
C2_BatchResilient ==
    main_pc = "done" =>
        /\ submitted = pdf_files
        /\ \A f \in Files : starts[f] = 1 /\ result[f] \in {"true", "false"}
        /\ \A f \in Files : result[f] = "false" <=> fault[f] # "none"
        /\ error_count = Cardinality({f \in Files : fault[f] # "none"})

\* C3: after the batch the output file of f exists if and only if
\* process_single_pdf returned True for f.
C3_ArtifactIffSuccess ==
    main_pc = "done" =>
        \A f \in Files : artifact[f] # "absent" <=> result[f] = "true"

\* C9: at every moment at most min(4, n) pipelines are in progress, no file
\* is on two workers, every started and unfinished file is on exactly one
\* worker, no file is started twice, and at the end each was started once.
C9_BoundedPool ==
    /\ Cardinality(Busy) <= Min(4, pdf_files)
    /\ \A v, w \in Busy : worker[v].file = worker[w].file => v = w
    /\ \A f \in Files :
          /\ starts[f] <= 1
          /\ (starts[f] = 1 /\ result[f] = "pending")
                <=> Cardinality({w \in Busy : worker[w].file = f}) = 1
          /\ starts[f] = 0 => result[f] = "pending"
    /\ main_pc = "done" => \A f \in Files : starts[f] = 1

\* Four pipelines in progress while a fifth file waits in the queue.
C9_Witness ==
    /\ pdf_files > 4
    /\ submitted = pdf_files
    /\ Cardinality(Busy) = 4
    /\ \E f \in Files : starts[f] = 0

\* C11: no call takes more than 50 turns of its page loop, every submitted
\* file eventually has an outcome, and the run eventually reports its
\* summary with every file's outcome known.
C11_Terminates ==
    /\ [](\A f \in Files : page_steps[f] <= 50)
    /\ \A f \in 1 .. MaxQueueFiles :
          (f \in Files /\ f <= submitted) ~> (f \in Files /\ result[f] # "pending")
    /\ <>(main_pc = "done" /\ \A f \in Files : result[f] # "pending")

\* The run is over; one of its documents had more than 50 pages and its
\* call took 50 turns of the page loop.
C11_Witness ==
    /\ main_pc = "done"
    /\ \E f \in Files : num_pages[f] > 50 /\ page_steps[f] = 50 /\ result[f] = "true"

====
